---- MODULE Spec2Model ----
(***************************************************************************)
(* Robust estimators of "4 Robust Statistics and Non-Linear Methods/       *)
(* 4.2.ipynb": compute_median, compute_iqr and compute_mad over a pandas   *)
(* Series, together with the caller that holds the Series and invokes      *)
(* them.                                                                   *)
(*                                                                         *)
(* Numbers are fixed-point with two fractional bits (one model integer is  *)
(* a quarter): samples hold whole numbers, a median of whole numbers is a  *)
(* multiple of 1/2 and a median of deviations from it a multiple of 1/4,   *)
(* so every division by two the code performs is exact in the model, as it *)
(* is in binary floating point for these inputs.                           *)
(* Series holding NaN or infinities are outside the model.                 *)
(***************************************************************************)
EXTENDS Integers, Sequences, FiniteSets, TLC

VARIABLES a, op, out, hist

vars == <<a, op, out, hist>>

\* ---------------------------------------------------------------- bounds
MaxLen == 5
MaxAbs == 2
Huge == 1000

Unit == 2 * 2

Values == {Unit * v : v \in (0 - MaxAbs)..MaxAbs}

Samples == UNION {[1..n -> Values] : n \in 0..MaxLen}

Calls == {"median", "iqr", "mad"}

\* ------------------------------------------------------ outcomes of a call
None == [kind |-> "none"]

IndexError == [kind |-> "IndexError"]

scalar(x) == [kind |-> "scalar", val |-> x]

float(x) == [kind |-> "float", val |-> x]

Raised(r) == r.kind = "IndexError"

abs(x) == IF x < 0 THEN 0 - x ELSE x

\* ------------------------------------------------------- pandas primitives
RECURSIVE Insert(_, _)
Insert(x, s) ==
  IF s = <<>> THEN <<x>>
  ELSE IF x <= Head(s) THEN <<x>> \o s
  ELSE <<Head(s)>> \o Insert(x, Tail(s))

RECURSIVE Ascending(_)
Ascending(s) == IF s = <<>> THEN <<>> ELSE Insert(Head(s), Ascending(Tail(s)))

\* Series.sort_values done in place: the receiver itself is reordered.
sort_values_inplace(s) ==
  [ret |-> Ascending(s), self |-> Ascending(s)]

\* Series.sort_values kept as the identity: no reordering at all.
sort_values_unsorted(s) ==
  [ret |-> s, self |-> s]

\* Series.sort_values(): a new Series in ascending order, receiver untouched.
sort_values(s) ==
  [ret |-> Ascending(s), self |-> s]

\* Series.iloc[i], i a 0-based position, negative positions counted from the
\* end; a position outside the Series raises IndexError.
iloc(s, i) ==
  LET pos == IF i < 0 THEN i + Len(s) ELSE i
  IN IF pos < 0 \/ pos >= Len(s) THEN IndexError ELSE scalar(s[pos + 1])

\* Series.iloc[start:stop], 0-based half-open, clamped to the Series.
islice(s, start, stop) ==
  LET hi == IF stop > Len(s) THEN Len(s) ELSE stop
  IN SubSeq(s, start + 1, hi)

RECURSIVE Sum(_)
Sum(s) == IF s = <<>> THEN 0 ELSE Head(s) + Sum(Tail(s))

\* ------------------------------------------------------------ compute_median
\* The even branch keeps only the upper middle element.
compute_median_upper(s) ==
  LET sv == sort_values(s)
      sorted_a == sv.ret
      idx == Len(sorted_a) \div 2
      x == iloc(sorted_a, idx)
  IN [ret |-> IF Raised(x) THEN x ELSE float(x.val), a |-> sv.self]

\* The even branch subtracts the two middle elements instead of adding them.
compute_median_minus(s) ==
  LET sv == sort_values(s)
      sorted_a == sv.ret
      idx == Len(sorted_a) \div 2
  IN IF Len(s) % 2 = 1
     THEN LET x == iloc(sorted_a, idx)
          IN [ret |-> IF Raised(x) THEN x ELSE float(x.val), a |-> sv.self]
     ELSE LET x == iloc(sorted_a, idx - 1)
              y == iloc(sorted_a, idx)
          IN [ret |-> IF Raised(x) THEN x
                      ELSE IF Raised(y) THEN y
                      ELSE float((x.val - y.val) \div 2),
              a |-> sv.self]

\* The location estimate is the sample mean.
compute_median_mean(s) ==
  [ret |-> IF s = <<>> THEN IndexError ELSE float(Sum(s) \div Len(s)), a |-> s]

\* An empty Series yields the sentinel 0.0 instead of raising.
compute_median_sentinel(s) ==
  LET sv == sort_values(s)
      sorted_a == sv.ret
      idx == Len(sorted_a) \div 2
  IN IF Len(s) = 0 THEN [ret |-> float(0), a |-> sv.self]
     ELSE IF Len(s) % 2 = 1
     THEN [ret |-> float(sorted_a[idx + 1]), a |-> sv.self]
     ELSE [ret |-> float((sorted_a[idx] + sorted_a[idx + 1]) \div 2),
           a |-> sv.self]

compute_median(s) ==
  LET sv == sort_values(s)
      sorted_a == sv.ret
      idx == Len(sorted_a) \div 2
  IN IF Len(s) % 2 = 1
     THEN LET x == iloc(sorted_a, idx)
          IN [ret |-> IF Raised(x) THEN x ELSE float(x.val), a |-> sv.self]
     ELSE LET x == iloc(sorted_a, idx - 1)
              y == iloc(sorted_a, idx)
          IN [ret |-> IF Raised(x) THEN x
                      ELSE IF Raised(y) THEN y
                      ELSE float((x.val + y.val) \div 2),
              a |-> sv.self]

\* --------------------------------------------------------------- compute_iqr
\* The odd branch keeps the middle element in the upper half.
compute_iqr_keepmid(s) ==
  LET sv == sort_values(s)
      sorted_a == sv.ret
      n == Len(sorted_a)
      idx == n \div 2
      q1 == compute_median(islice(sorted_a, 0, idx)).ret
      q3 == compute_median(islice(sorted_a, idx, n)).ret
  IN [ret |-> IF Raised(q1) THEN q1
              ELSE IF Raised(q3) THEN q3
              ELSE float(q3.val - q1.val),
      a |-> sv.self]

compute_iqr(s) ==
  LET sv == sort_values(s)
      sorted_a == sv.ret
      n == Len(sorted_a)
      idx == n \div 2
      q1 == compute_median(islice(sorted_a, 0, idx)).ret
      q3 == IF Len(s) % 2 = 1
            THEN compute_median(islice(sorted_a, idx + 1, n)).ret
            ELSE compute_median(islice(sorted_a, idx, n)).ret
  IN [ret |-> IF Raised(q1) THEN q1
              ELSE IF Raised(q3) THEN q3
              ELSE float(q3.val - q1.val),
      a |-> sv.self]

\* --------------------------------------------------------------- compute_mad
\* The normal-consistency constant (about 1.5) is applied to the result.
compute_mad_scaled(s) ==
  LET m == compute_median(s)
      median == m.ret
      a1 == m.a
      deviations == [i \in 1..Len(a1) |-> abs(a1[i] - median.val)]
      r == compute_median(deviations).ret
  IN [ret |-> IF Raised(median) THEN median
              ELSE IF Raised(r) THEN r
              ELSE float((3 * r.val) \div 2),
      a |-> a1]

compute_mad(s) ==
  LET m == compute_median(s)
      median == m.ret
      a1 == m.a
      deviations == [i \in 1..Len(a1) |-> abs(a1[i] - median.val)]
  IN [ret |-> IF Raised(median) THEN median
              ELSE compute_median(deviations).ret,
      a |-> a1]

\* ------------------------------------------------------------------- caller
Init ==
  /\ a \in Samples
  /\ op = "none"
  /\ out = None
  /\ hist = [c \in Calls |-> None]

Median ==
  LET r == compute_median(a)
  IN /\ a' = r.a
     /\ op' = "median"
     /\ out' = r.ret
     /\ hist' = [hist EXCEPT !["median"] = IF @ = None THEN r.ret ELSE @]

Iqr ==
  LET r == compute_iqr(a)
  IN /\ a' = r.a
     /\ op' = "iqr"
     /\ out' = r.ret
     /\ hist' = [hist EXCEPT !["iqr"] = IF @ = None THEN r.ret ELSE @]

Mad ==
  LET r == compute_mad(a)
  IN /\ a' = r.a
     /\ op' = "mad"
     /\ out' = r.ret
     /\ hist' = [hist EXCEPT !["mad"] = IF @ = None THEN r.ret ELSE @]

Next == Median \/ Iqr \/ Mad

Spec == Init /\ [][Next]_vars

\* ------------------------------------------------ vocabulary of the claims
Range(s) == {s[i] : i \in 1..Len(s)}

Max(s) == CHOOSE v \in Range(s) : \A w \in Range(s) : w <= v

Min(s) == CHOOSE v \in Range(s) : \A w \in Range(s) : v <= w

\* The k-th smallest value of s (k = 1 is the smallest), by counting.
OrderStat(s, k) ==
  CHOOSE v \in Range(s) :
    /\ Cardinality({i \in 1..Len(s) : s[i] < v}) < k
    /\ k <= Cardinality({i \in 1..Len(s) : s[i] <= v})

\* s in ascending order.
Sorted(s) == [k \in 1..Len(s) |-> OrderStat(s, k)]

\* Twice the median of a non-empty s: the middle element counted twice, or
\* the sum of the two middle elements.
TwiceMedian(s) ==
  LET sorted == Sorted(s)
      idx == Len(s) \div 2
  IN IF Len(s) % 2 = 1 THEN 2 * sorted[idx + 1]
     ELSE sorted[idx] + sorted[idx + 1]

\* A Series of whole numbers.
Whole(s) == [i \in 1..Len(s) |-> Unit * s[i]]

\* The sample with the observation at position i replaced by M.
Replace(s, i, M) == [s EXCEPT ![i] = M]

\* Replacement values larger than every element of s, near and far.
Outliers(s) == {Max(s) + Unit, Max(s) + Huge * Unit}

\* Every reordering of s.
Reorderings(s) ==
  {[i \in 1..Len(s) |-> s[p[i]]] : p \in Permutations(1..Len(s))}

\* ------------------------------------------------------------------- claims

\* C1: the median of a non-empty sample is the middle element of the sample
\* in ascending order when its length is odd, and the average of the two
\* middle elements when its length is even; [1,2,3,4,5] gives 3 and
\* [1,2,3,4] gives 2.5.
C1_MedianIsMiddle ==
  /\ (op = "median" /\ Len(a) >= 1) =>
       LET sorted == Sorted(a)
           idx == Len(a) \div 2
       IN /\ out.kind = "float"
          /\ Len(a) % 2 = 1 => out.val = sorted[idx + 1]
          /\ Len(a) % 2 = 0 => 2 * out.val = sorted[idx] + sorted[idx + 1]
  /\ op = "median" =>
       /\ compute_median(Whole(<<1, 2, 3, 4, 5>>)).ret = float(3 * Unit)
       /\ 2 * compute_median(Whole(<<1, 2, 3, 4>>)).ret.val = 5 * Unit

C1_Witness ==
  /\ op = "median"
  /\ Len(a) = 4
  /\ a # Sorted(a)
  /\ out.kind = "float"
  /\ out.val % Unit # 0

\* C2: iqr is q3 - q1, q1 the median of the lower half sorted[0:idx], q3 the
\* median of sorted[idx+1:n] for odd n (the middle element is in neither half
\* and its value does not matter) and of sorted[idx:n] for even n; where a
\* half is empty no value comes back; [1,2,3,4,5] gives 3 and [1,2,3,4]
\* gives 2.
C2_IqrSplit ==
  /\ (op = "iqr" /\ Len(a) >= 2) =>
       LET sorted == Sorted(a)
           n == Len(a)
           idx == n \div 2
           lower == SubSeq(sorted, 1, idx)
           upper == IF n % 2 = 1 THEN SubSeq(sorted, idx + 2, n)
                    ELSE SubSeq(sorted, idx + 1, n)
       IN /\ out.kind = "float"
          /\ 2 * out.val = TwiceMedian(upper) - TwiceMedian(lower)
          /\ n % 2 = 0 => lower \o upper = sorted
          /\ n % 2 = 1 => lower \o <<sorted[idx + 1]>> \o upper = sorted
          /\ n % 2 = 1 =>
               \A i \in 1..n : \A w \in Values :
                 (a[i] = sorted[idx + 1] /\ sorted[idx] <= w
                    /\ w <= sorted[idx + 2])
                 => compute_iqr(Replace(a, i, w)).ret = out
  /\ (op = "iqr" /\ Len(a) < 2) => out.kind # "float"
  /\ op = "iqr" =>
       /\ compute_iqr(Whole(<<1, 2, 3, 4, 5>>)).ret = float(3 * Unit)
       /\ compute_iqr(Whole(<<1, 2, 3, 4>>)).ret = float(2 * Unit)

C2_Witness ==
  /\ op = "iqr"
  /\ Len(a) = 5
  /\ a # Sorted(a)
  /\ Sorted(a)[2] < Sorted(a)[3]
  /\ Sorted(a)[3] < Sorted(a)[4]
  /\ out.kind = "float"
  /\ out.val > 0

\* C3: mad is the median of the absolute deviations of the elements from the
\* sample's own median, with no scaling factor; [1,2,3,4,5] gives 1.
C3_MadIsMedianOfDeviations ==
  /\ (op = "mad" /\ Len(a) >= 1) =>
       LET m2 == TwiceMedian(a)
           D2 == [i \in 1..Len(a) |-> abs(2 * a[i] - m2)]
       IN /\ out.kind = "float"
          /\ 4 * out.val = TwiceMedian(D2)
  /\ op = "mad" => compute_mad(Whole(<<1, 2, 3, 4, 5>>)).ret = float(Unit)

C3_Witness ==
  /\ op = "mad"
  /\ Len(a) = 4
  /\ TwiceMedian(a) % (2 * Unit) # 0
  /\ out.kind = "float"
  /\ out.val > 0

\* C4: on a single-element sample [v] all three estimators return a value:
\* median v, iqr 0, mad 0.
C4_SingleElement ==
  (Len(a) = 1 /\ op \in Calls) =>
    out = IF op = "median" THEN float(a[1]) ELSE float(0)

\* C5 as stated: on the empty sample every estimator ends in
\* InvalidInputError.
C5_InvalidInputError ==
  (Len(a) = 0 /\ op \in Calls) => out.kind = "InvalidInputError"

\* C5 as amended: on the empty sample every estimator ends in the IndexError
\* of the out-of-range positional access in compute_median, and returns no
\* value, also when the empty sample reaches the median through iqr or mad.
C5_EmptyRaisesIndexError ==
  (Len(a) = 0 /\ op \in Calls) => out = IndexError

C5_Witness ==
  /\ Len(a) = 0
  /\ \A c \in Calls : hist[c] = IndexError

\* C6: on every sample of at least one element iqr returns a value, and the
\* value is not negative.
C6_IqrNonNegative ==
  (Len(a) >= 1 /\ op = "iqr") => (out.kind = "float" /\ out.val >= 0)

\* C7: the median of a non-empty sample is the median of every reordering
\* of it.
C7_MedianOrderIndependent ==
  (op = "median" /\ Len(a) >= 1) =>
    \A P \in Reorderings(a) : compute_median(P).ret = out

C7_Witness ==
  /\ op = "median"
  /\ Len(a) >= 3
  /\ a # Sorted(a)
  /\ Cardinality(Range(a)) >= 3
  /\ out.kind = "float"

\* The sorted neighbours of the middle position(s) of s, as far as s has them.
LowerNeighbour(s) ==
  LET idx == Len(s) \div 2
      k == IF Len(s) % 2 = 1 THEN idx ELSE idx - 1
  IN Sorted(s)[IF k < 1 THEN 1 ELSE k]

UpperNeighbour(s) ==
  LET idx == Len(s) \div 2
  IN Sorted(s)[IF idx + 2 > Len(s) THEN Len(s) ELSE idx + 2]

\* C8 as stated: replacing any one element by a value larger than all
\* elements leaves the median between the sorted neighbours of the original
\* middle position(s), and the mad between the sorted neighbours of the
\* middle position(s) of the original deviations.
C8_OneStep ==
  /\ (op = "median" /\ Len(a) >= 1) =>
       \A i \in 1..Len(a) : \A M \in Outliers(a) :
         LET r == compute_median(Replace(a, i, M)).ret
         IN /\ r.kind = "float"
            /\ LowerNeighbour(a) <= r.val
            /\ r.val <= UpperNeighbour(a)
  /\ (op = "mad" /\ Len(a) >= 1) =>
       \A i \in 1..Len(a) : \A M \in Outliers(a) :
         LET r == compute_mad(Replace(a, i, M)).ret
             m2 == TwiceMedian(a)
             D2 == [j \in 1..Len(a) |-> abs(2 * a[j] - m2)]
         IN /\ r.kind = "float"
            /\ LowerNeighbour(D2) <= 2 * r.val
            /\ 2 * r.val <= UpperNeighbour(D2)

\* C8 as amended: on a sample of at least three elements, replacing any one
\* element by a value M larger than all elements leaves the median between
\* the original median and the sorted element just above the original middle
\* position(s), and leaves the mad between 0 and max(S) - min(S), a bound
\* that does not depend on M.
C8_BoundedChange ==
  /\ (op = "median" /\ Len(a) >= 3) =>
       \A i \in 1..Len(a) : \A M \in Outliers(a) :
         LET r == compute_median(Replace(a, i, M)).ret
         IN /\ r.kind = "float"
            /\ out.val <= r.val
            /\ r.val <= UpperNeighbour(a)
  /\ (op = "mad" /\ Len(a) >= 3) =>
       \A i \in 1..Len(a) : \A M \in Outliers(a) :
         LET r == compute_mad(Replace(a, i, M)).ret
         IN /\ r.kind = "float"
            /\ 0 <= r.val
            /\ r.val <= Max(a) - Min(a)
            /\ abs(r.val - out.val) <= Max(a) - Min(a)

C8_Witness ==
  /\ op = "median"
  /\ Len(a) >= 3
  /\ \E i \in 1..Len(a) : \E M \in Outliers(a) :
       /\ compute_median(Replace(a, i, M)).ret.val > out.val
       /\ compute_mad(Replace(a, i, M)).ret.val > compute_mad(a).ret.val

\* C9: a call leaves the Series it was given with the same elements in the
\* same order, and a call repeated on the same Series returns what the first
\* such call returned, whatever calls ran in between.
C9_InputKeptAndRepeatable ==
  [][op' \in Calls =>
       /\ a' = a
       /\ hist[op'] # None => out' = hist[op']]_vars

C9_Witness ==
  /\ Len(a) >= 3
  /\ a # Sorted(a)
  /\ \A c \in Calls : hist[c].kind = "float"
  /\ out = hist[op]

\* C10: the mad of a non-empty sample is never negative, as no deviation
\* from the median is.
C10_MadNonNegative ==
  (op = "mad" /\ Len(a) >= 1) =>
    /\ out.kind = "float"
    /\ out.val >= 0
    /\ \A i \in 1..Len(a) : abs(a[i] - compute_median(a).ret.val) >= 0

C10_Witness ==
  /\ op = "mad"
  /\ Len(a) % 2 = 0
  /\ Len(a) >= 2
  /\ \E i \in 1..Len(a) : 2 * a[i] < TwiceMedian(a)
  /\ out.kind = "float"
  /\ out.val > 0

====
